---- MODULE Spec2Model ----
(***************************************************************************)
(* Model of the browser-side session handling of the POS client:           *)
(*   - src/src/lib/api.ts: getValidAccessToken and apiRequest              *)
(*   - src/src/contexts/AuthContext.tsx: initial load, login,              *)
(*     refreshToken (periodic), logout                                     *)
(* All operations run on one event loop.  A step of the model is one run   *)
(* of JavaScript between two suspension points at which the loop waits for *)
(* a network answer (await fetch); an await on an already settled promise  *)
(* is a microtask hop that no timer, click or network event can interrupt, *)
(* so it stays inside the step.                                            *)
(* Two pages with state of their own are modelled beside it:               *)
(*   - src/src/pages/Billing.tsx: the cart                                 *)
(*   - src/src/components/ErrorBoundary.tsx: UserManagement.handleDelete   *)
(***************************************************************************)
EXTENDS Integers, Sequences, FiniteSets, TLC

VARIABLES
    store,            \* localStorage: accessToken, refreshToken, user
    now,              \* Date.now() in milliseconds
    href,             \* window.location.href (only '/login' is ever assigned)
    isAuthenticated,  \* AuthProvider state
    user,             \* AuthProvider state
    mounted,          \* the AuthProvider mount effect has run
    calls,            \* the apiRequest invocations, one record per call slot
    loginPc,          \* position of the login() invocation
    loginResult,      \* what login() resolved to
    bgPc,             \* position of the periodic refreshToken() invocation
    bgRefresh,        \* its local const refreshToken
    ops,              \* number of operations started so far
    last              \* history: the handler that ran in the last step, when it
                      \* was a completed login, a logout or a failed periodic refresh

VARIABLES
    cart,             \* Billing: useState<CartItem[]>, lines of [id, quantity]
    cartOp,           \* history: the last cart handler, its arguments and the
                      \* quantity its product had in the cart before (0: no line)
    users,            \* UserManagement: useState<User[]>, the loaded list
    backend,          \* the users the backend holds
    del,              \* position of the handleDelete invocation and its id
    userLog           \* what UserManagement sent and showed, in order

sessionVars == <<store, now, href, isAuthenticated, user, mounted, calls,
                 loginPc, loginResult, bgPc, bgRefresh, ops, last>>
pageVars == <<cart, cartOp, users, backend, del, userLog>>
vars == <<sessionVars, pageVars>>

ctxVars == <<isAuthenticated, user, mounted>>
loginVars == <<loginPc, loginResult>>
bgVars == <<bgPc, bgRefresh>>

-----------------------------------------------------------------------------
\* Bounds of the model

MaxOps == 3         \* operations (apiRequest, login, logout, refresh tick) started
MaxTicks == 2       \* clock advances
MaxQty == 3         \* largest quantity of a cart line
MaxDeletes == 2     \* handleDelete invocations
TickMs == 100000    \* milliseconds per clock advance

\* Program constants

RefreshWindowMs == 300000     \* api.ts:19
MsPerSecond == 1000           \* api.ts:16
Unauthorized == 401           \* api.ts:72

-----------------------------------------------------------------------------
\* Values

None == "null"                \* localStorage.getItem of a missing key; null state

\* Access tokens the store may hold or the backend may issue.
AccessTokens == {"h.exp100.s", "h.exp400.s", "h.exp900.s", "h.noexp.s", "opaque"}
IssuedAccess == {"h.exp400.s", "h.exp900.s"}

\* Refresh tokens; the backend still honours the ones in ValidRefresh.
RefreshTokens == {"r.valid", "r.expired"}
ValidRefresh == {"r.valid"}

Users == {"alice"}
StoredUsers == {"{alice}", "{corrupt"}

Statuses == {200, 401, 500}
NetErr == 0                   \* fetch rejected: no response at all

HeaderNames == {"Authorization", "Content-Type"}
Absent == "absent"
NoHeaders == [n \in HeaderNames |-> Absent]
\* options.headers is a HeadersInit (ApiOptions extends RequestInit): a plain
\* object of name/value pairs or a Headers instance; map is what it holds
PlainHeaders(m) == [shape |-> "record", map |-> m]
CallerHeaders ==
    { PlainHeaders([n \in HeaderNames |->
                      IF n = "Authorization" THEN "Basic caller" ELSE "application/json"]),
      [shape |-> "Headers", map |-> [NoHeaders EXCEPT !["Content-Type"] = "application/json"]] }

\* { ...fetchOptions.headers }: line 51.  Spread copies own enumerable
\* properties; a Headers instance has none, so its spread is {}
Spread(h) == IF h.shape = "record" THEN h.map ELSE NoHeaders

\* Values of last: what the login endpoint issued, logout, anything else
AfterLogin(access, refresh, u) ==
    [op |-> "login", access |-> access, refresh |-> refresh, user |-> u]
AfterLogout == [op |-> "logout", access |-> None, refresh |-> None, user |-> None]
AfterRefreshFailed == [op |-> "refreshFailed", access |-> None, refresh |-> None, user |-> None]
AfterOther == [op |-> "other", access |-> None, refresh |-> None, user |-> None]

EmptyStore == [accessToken |-> None, refreshToken |-> None, user |-> None]

-----------------------------------------------------------------------------
\* JSON and token decoding

\* JSON.stringify(userData)
Stringify(u) == "{" \o u \o "}"

\* JSON.parse(storedUser): [ok, value]; ok = FALSE when it throws
ParseUser(s) ==
    IF \E u \in Users : s = Stringify(u)
    THEN [ok |-> TRUE, value |-> CHOOSE u \in Users : s = Stringify(u)]
    ELSE [ok |-> FALSE, value |-> None]

\* JSON.parse(atob(accessToken.split('.')[1])) followed by payload.exp:
\* throws = TRUE when split/atob/JSON.parse throws; hasExp = FALSE when the
\* payload has no exp (payload.exp * 1000 is NaN).
Decode(tok) ==
    CASE tok = "h.exp100.s" -> [throws |-> FALSE, hasExp |-> TRUE, exp |-> 100]
      [] tok = "h.exp400.s" -> [throws |-> FALSE, hasExp |-> TRUE, exp |-> 400]
      [] tok = "h.exp900.s" -> [throws |-> FALSE, hasExp |-> TRUE, exp |-> 900]
      [] tok = "h.noexp.s"  -> [throws |-> FALSE, hasExp |-> FALSE, exp |-> 0]
      [] OTHER              -> [throws |-> TRUE, hasExp |-> FALSE, exp |-> 0]

\* exp - now, with exp = payload.exp * 1000
Remaining(tok, t) == Decode(tok).exp * MsPerSecond - t

\* NeedsRefresh with the comparison turned around
NeedsRefreshInverted(tok, t) ==
    /\ Decode(tok).hasExp
    /\ Remaining(tok, t) > RefreshWindowMs

\* if (exp - now < 300000); a comparison with NaN is false
NeedsRefresh(tok, t) ==
    /\ Decode(tok).hasExp
    /\ Remaining(tok, t) < RefreshWindowMs

\* CatchResult giving up instead of returning the stored token
CatchReturnsNull(accessToken) == None

\* catch { return accessToken; }
CatchResult(accessToken) == accessToken

\* ResolveSync refreshing whenever a refresh token is stored, whatever the expiry
ResolveSyncEager(accessToken, refreshToken, t) ==
    IF accessToken = None THEN [kind |-> "null", tok |-> None]
    ELSE IF refreshToken # None THEN [kind |-> "fetch", tok |-> None]
    ELSE [kind |-> "token", tok |-> accessToken]

\* The part of getValidAccessToken that runs before its only await:
\*   kind = "null"  : it returns null
\*   kind = "token" : it returns tok
\*   kind = "fetch" : it calls the refresh endpoint and suspends
ResolveSync(accessToken, refreshToken, t) ==
    IF accessToken = None THEN [kind |-> "null", tok |-> None]
    ELSE IF Decode(accessToken).throws
         THEN [kind |-> "token", tok |-> CatchResult(accessToken)]
    ELSE IF NeedsRefresh(accessToken, t)
         THEN IF refreshToken = None
              THEN [kind |-> "null", tok |-> None]
              ELSE [kind |-> "fetch", tok |-> None]
    ELSE [kind |-> "token", tok |-> accessToken]

\* ClearCredentials without the removal of the user entry
ClearTokensOnly(st) == [st EXCEPT !.accessToken = None, !.refreshToken = None]

\* localStorage.removeItem of the three keys
ClearCredentials(st) == EmptyStore

\* SetAccessToken also overwriting the refresh token with a field the answer
\* does not carry
SetAccessAndRefresh(st, tok) == [st EXCEPT !.accessToken = tok, !.refreshToken = None]

\* localStorage.setItem('accessToken', access)
SetAccessToken(st, tok) == [st EXCEPT !.accessToken = tok]

\* `Bearer ${accessToken}`
Bearer(tok) == "Bearer " \o tok

\* ShouldRetry without the requireAuth test
ShouldRetryAnyCall(status, requireAuth) == status = Unauthorized

\* ShouldRetry taking every status but 200 for a stale credential
ShouldRetryNotOk(status, requireAuth) == status # 200 /\ requireAuth

\* response.status === 401 && requireAuth
ShouldRetry(status, requireAuth) == status = Unauthorized /\ requireAuth

-----------------------------------------------------------------------------
\* The record of one apiRequest invocation

\* One entry of a call's trace:
\*   resolve       getValidAccessToken read tok and rt from the store (lines 8-9)
\*   refreshCall   it called the refresh endpoint with rt (line 22)
\*   setItem       it wrote tok as the new accessToken (line 30)
\*   wipe          it removed the three entries (lines 34-36)
\*   refreshFailed the refresh call failed at network level (line 41)
\*   redirect      window.location.href = '/login' (lines 37, 59)
\*   request       the request was issued with headers hdr (lines 66, 77)
\*   response      it was answered with status, NetErr when it failed
Ev(e, tok, rt, hdr, status) ==
    [e |-> e, tok |-> tok, rt |-> rt, hdr |-> hdr, status |-> status,
     at |-> IF e = "resolve" THEN now ELSE 0]     \* const now = Date.now()

NoResult == [kind |-> "none", status |-> 0, msg |-> ""]
ResponseResult(s) == [kind |-> "response", status |-> s, msg |-> ""]
ErrorResult(m) == [kind |-> "error", status |-> 0, msg |-> m]

IdleCall ==
    [ pc |-> "idle",              \* idle, refreshing, requesting, returned, thrown
      attempt |-> 0,              \* 1: lines 53-69, 2: lines 72-82
      requireAuth |-> TRUE,
      callerHeaders |-> PlainHeaders(NoHeaders),
      headers |-> NoHeaders,      \* let headers
      accessToken |-> None,       \* getValidAccessToken's const accessToken
      refreshToken |-> None,      \* getValidAccessToken's const refreshToken
      response |-> 0,             \* const response (its status)
      result |-> NoResult,
      trace |-> << >> ]           \* what the call did, in order

\* Billing: products on sale and the changes updateQuantity is called with
ProductIds == {"p1", "p2", "p3"}
Changes == {-2, -1, 1, 2}
NoCartOp == [op |-> "none", id |-> "null", change |-> 0, before |-> 0]

\* UserManagement: users are [id, role]; a list holds an id at most once
UserIds == {1, 2, 3}
Roles == {"admin", "staff"}
UserLists ==
    {l \in SUBSET [id : UserIds, role : Roles] :
        \A u, v \in l : u.id = v.id => u = v}

\* handleDelete is not running
IdleDelete == [pc |-> "idle", id |-> 0]

\* The apiRequest invocations followed at a time.  A slot is used again once
\* its call has settled; what other callers do to the store while a call is
\* suspended is what the periodic refresh, login and logout do to it.
Calls == {1}

\* Two components calling apiRequest at the same time
Callers == {1, 2}

TypeOK ==
    /\ store \in [accessToken : AccessTokens \cup {None},
                  refreshToken : RefreshTokens \cup {None},
                  user : StoredUsers \cup {None}]
    /\ now \in 0..(MaxTicks * TickMs)
    /\ href \in {"/", "/login"}
    /\ isAuthenticated \in BOOLEAN
    /\ user \in Users \cup {None}
    /\ mounted \in BOOLEAN
    /\ \A c \in Calls :
          /\ calls[c].pc \in {"idle", "refreshing", "requesting", "returned", "thrown"}
          /\ calls[c].attempt \in 0..2
    /\ loginPc \in {"idle", "inflight"}
    /\ bgPc \in {"idle", "inflight"}
    /\ ops \in 0..MaxOps
    /\ last.op \in {"login", "logout", "refreshFailed", "other"}

-----------------------------------------------------------------------------
\* Initial state: the page has just loaded.  The store holds what an earlier
\* visit left: nothing, a session written by login (whose user entry may
\* since have been damaged, the case the mount effect guards against), or the
\* lone access token a refresh completing after logout writes (line 30).

Init ==
    /\ store \in {EmptyStore, SetAccessToken(EmptyStore, "h.exp900.s")} \cup
                 [accessToken : AccessTokens, refreshToken : RefreshTokens,
                  user : StoredUsers]
    /\ now = 0
    /\ href = "/"
    /\ isAuthenticated = FALSE
    /\ user = None
    /\ mounted = FALSE
    /\ calls = [c \in Calls |-> IdleCall]
    /\ loginPc = "idle"
    /\ loginResult = "none"
    /\ bgPc = "idle"
    /\ bgRefresh = None
    /\ ops = 0
    /\ last = AfterOther
    /\ cart = << >>
    /\ cartOp = NoCartOp
    /\ users = {}
    /\ backend = {}
    /\ del = IdleDelete
    /\ userLog = << >>

-----------------------------------------------------------------------------
\* apiRequest and getValidAccessToken (src/src/lib/api.ts)

\* fetch(fullUrl, {...fetchOptions, headers}) and the await on it
IssueRequest(c, cr, h) ==
    calls' = [calls EXCEPT ![c] =
                 [cr EXCEPT !.pc = "requesting",
                            !.headers = h,
                            !.trace = Append(@, Ev("request", None, None, h, 0))]]

\* NoToken without the throw: the request goes out without a credential
NoTokenFallsThrough(c, cr) ==
    /\ IssueRequest(c, cr, cr.headers)
    /\ href' = href

\* The else branch of `if (accessToken)` at lines 57-61
NoToken(c, cr) ==
    /\ calls' = [calls EXCEPT ![c] =
                    [cr EXCEPT !.pc = "thrown",
                               !.result = ErrorResult("No access token"),
                               !.trace = Append(@, Ev("redirect", None, None, NoHeaders, 0))]]
    /\ href' = "/login"

\* MayRetry without the limit of one retry
MayRetryAgain(cr, status) == ShouldRetry(status, cr.requireAuth)

\* The 401 test at line 72 is reached by the first response only: the retry's
\* response is returned at line 77
MayRetry(cr, status) == cr.attempt = 1 /\ ShouldRetry(status, cr.requireAuth)

\* ReturnResponse sending the session to the sign-in view on a 401
ReturnResponseRedirecting(c, cr, status, hrefIn) ==
    /\ calls' = [calls EXCEPT ![c] =
                    [cr EXCEPT !.pc = "returned",
                               !.result = ResponseResult(status),
                               !.trace = IF status = Unauthorized
                                         THEN Append(@, Ev("redirect", None, None, NoHeaders, 0))
                                         ELSE @]]
    /\ href' = IF status = Unauthorized THEN "/login" ELSE hrefIn

\* return response (lines 77 and 84); window.location.href stays as it is
ReturnResponse(c, cr, status, hrefIn) ==
    /\ calls' = [calls EXCEPT ![c] =
                    [cr EXCEPT !.pc = "returned", !.result = ResponseResult(status)]]
    /\ href' = hrefIn

\* Proceed treating a missing token in the retry as in the first attempt
ProceedAlwaysThrows(c, cr, tok, hrefIn) ==
    IF tok # None
    THEN /\ IssueRequest(c, cr, [cr.headers EXCEPT !["Authorization"] = Bearer(tok)])
         /\ href' = hrefIn
    ELSE NoToken(c, cr)

\* What apiRequest does with the value getValidAccessToken resolved to:
\* lines 55-69 in the first attempt, lines 75-84 in the retry.
\* hrefIn is window.location.href as getValidAccessToken left it.
Proceed(c, cr, tok, hrefIn) ==
    IF tok # None
    THEN /\ IssueRequest(c, cr, [cr.headers EXCEPT !["Authorization"] = Bearer(tok)])
         /\ href' = hrefIn
    ELSE IF cr.attempt = 1
    THEN NoToken(c, cr)
    ELSE ReturnResponse(c, cr, cr.response, hrefIn)

\* Resolve not awaiting the refresh call it started: the request goes out at
\* once with the token read from the store
ResolveWithoutAwait(c, cr) ==
    LET r == ResolveSync(store.accessToken, store.refreshToken, now)
        cr1 == [cr EXCEPT !.accessToken = store.accessToken,
                          !.refreshToken = store.refreshToken,
                          !.trace = Append(@, Ev("resolve", store.accessToken, store.refreshToken, NoHeaders, 0))]
    IN  /\ store' = store
        /\ IF r.kind = "fetch"
           THEN Proceed(c, [cr1 EXCEPT !.trace = Append(@, Ev("refreshCall", None, store.refreshToken, NoHeaders, 0))],
                        store.accessToken, href)
           ELSE Proceed(c, cr1, r.tok, href)

\* Resolve sharing a refresh call another invocation has in flight: it makes
\* none of its own and goes on with the stored token
ResolveCoalesced(c, cr) ==
    LET r == ResolveSync(store.accessToken, store.refreshToken, now)
        cr1 == [cr EXCEPT !.accessToken = store.accessToken,
                          !.refreshToken = store.refreshToken,
                          !.trace = Append(@, Ev("resolve", store.accessToken, store.refreshToken, NoHeaders, 0))]
    IN  /\ store' = store
        /\ IF r.kind = "fetch" /\ \A d \in DOMAIN calls : calls[d].pc # "refreshing"
           THEN /\ calls' = [calls EXCEPT ![c] =
                                [cr1 EXCEPT !.pc = "refreshing",
                                            !.trace = Append(@, Ev("refreshCall", None, store.refreshToken, NoHeaders, 0))]]
                /\ href' = href
           ELSE Proceed(c, cr1, IF r.kind = "fetch" THEN store.accessToken ELSE r.tok, href)

\* await getValidAccessToken(), up to its await on the refresh call
Resolve(c, cr) ==
    LET r == ResolveSync(store.accessToken, store.refreshToken, now)
        cr1 == [cr EXCEPT !.accessToken = store.accessToken,
                          !.refreshToken = store.refreshToken,
                          !.trace = Append(@, Ev("resolve", store.accessToken, store.refreshToken, NoHeaders, 0))]
    IN  /\ store' = store
        /\ IF r.kind = "fetch"
           THEN /\ calls' = [calls EXCEPT ![c] =
                                [cr1 EXCEPT !.pc = "refreshing",
                                            !.trace = Append(@, Ev("refreshCall", None, store.refreshToken, NoHeaders, 0))]]
                /\ href' = href
           ELSE Proceed(c, cr1, r.tok, href)

\* apiRequest(url, {requireAuth, headers}) is called.  Its callers are pages
\* rendered inside AuthProvider, after the provider's mount effect.
ApiRequest(c, requireAuth, h) ==
    /\ mounted
    /\ calls[c].pc \in {"idle", "returned", "thrown"}
    /\ ops < MaxOps
    /\ ops' = ops + 1
    /\ LET cr == [IdleCall EXCEPT !.requireAuth = requireAuth,
                                  !.callerHeaders = h,
                                  !.headers = Spread(h),
                                  !.attempt = 1]
       IN  IF requireAuth
           THEN Resolve(c, cr)
           ELSE /\ IssueRequest(c, cr, cr.headers)
                /\ UNCHANGED <<store, href>>
    /\ last' = AfterOther
    /\ UNCHANGED pageVars
    /\ UNCHANGED <<now, ctxVars, loginVars, bgVars>>

\* The refresh endpoint answered (or the call failed): lines 28-43
RefreshResponse(c, outcome, newTok) ==
    /\ calls[c].pc = "refreshing"
    /\ outcome = "ok" => calls[c].refreshToken \in ValidRefresh
    /\ LET cr == calls[c] IN
       CASE outcome = "ok" ->
              /\ store' = SetAccessToken(store, newTok)
              /\ Proceed(c, [cr EXCEPT !.trace = Append(@, Ev("setItem", newTok, None, NoHeaders, 0))],
                         newTok, href)
         [] outcome = "rejected" ->
              /\ store' = ClearCredentials(store)
              /\ Proceed(c, [cr EXCEPT !.trace = Append(Append(@, Ev("wipe", None, None, NoHeaders, 0)),
                                                          Ev("redirect", None, None, NoHeaders, 0))],
                         None, "/login")
         [] outcome = "neterr" ->
              /\ store' = store
              /\ Proceed(c, [cr EXCEPT !.trace = Append(@, Ev("refreshFailed", None, None, NoHeaders, 0))],
                         CatchResult(cr.accessToken), href)
    /\ last' = AfterOther
    /\ UNCHANGED pageVars
    /\ UNCHANGED <<now, ctxVars, loginVars, bgVars, ops>>

\* The protected request was answered (or failed): lines 66-84
Response(c, status) ==
    /\ calls[c].pc = "requesting"
    /\ LET cr == [calls[c] EXCEPT !.trace = Append(@, Ev("response", None, None, NoHeaders, status))] IN
       IF status = NetErr
       THEN /\ calls' = [calls EXCEPT ![c] =
                            [cr EXCEPT !.pc = "thrown", !.result = ErrorResult("Failed to fetch")]]
            /\ UNCHANGED <<store, href>>
       ELSE IF MayRetry(cr, status)
       THEN Resolve(c, [cr EXCEPT !.response = status, !.attempt = 2])
       ELSE /\ ReturnResponse(c, cr, status, href)
            /\ store' = store
    /\ last' = AfterOther
    /\ UNCHANGED pageVars
    /\ UNCHANGED <<now, ctxVars, loginVars, bgVars, ops>>

-----------------------------------------------------------------------------
\* AuthProvider (src/src/contexts/AuthContext.tsx)

\* InitialLoad without the try/catch around JSON.parse: the throw leaves
\* isAuthenticated set and the store as it was
InitialLoadUnguarded ==
    /\ ~mounted
    /\ mounted' = TRUE
    /\ IF store.accessToken # None /\ store.user # None
       THEN /\ isAuthenticated' = TRUE
            /\ user' = IF ParseUser(store.user).ok THEN ParseUser(store.user).value ELSE user
            /\ store' = store
       ELSE UNCHANGED <<store, isAuthenticated, user>>
    /\ last' = AfterOther
    /\ UNCHANGED pageVars
    /\ UNCHANGED <<now, href, calls, loginVars, bgVars, ops>>

\* The mount effect, lines 21-41
InitialLoad ==
    /\ ~mounted
    /\ mounted' = TRUE
    /\ IF store.accessToken # None /\ store.user # None
       THEN IF ParseUser(store.user).ok
            THEN /\ isAuthenticated' = TRUE
                 /\ user' = ParseUser(store.user).value
                 /\ store' = store
            ELSE /\ store' = ClearCredentials(store)
                 /\ UNCHANGED <<isAuthenticated, user>>
       ELSE UNCHANGED <<store, isAuthenticated, user>>
    /\ last' = AfterOther
    /\ UNCHANGED pageVars
    /\ UNCHANGED <<now, href, calls, loginVars, bgVars, ops>>

\* login(username, password) is called: lines 43-54
Login ==
    /\ mounted
    /\ loginPc = "idle"
    /\ ops < MaxOps
    /\ ops' = ops + 1
    /\ loginPc' = "inflight"
    /\ loginResult' = "none"
    /\ last' = AfterOther
    /\ UNCHANGED pageVars
    /\ UNCHANGED <<store, now, href, calls, ctxVars, bgVars>>

\* LoginOk storing the two tokens under each other's key
LoginOkSwapped(access, refresh, u) ==
    /\ loginPc = "inflight"
    /\ store' = [accessToken |-> refresh, refreshToken |-> access, user |-> Stringify(u)]
    /\ isAuthenticated' = TRUE
    /\ user' = u
    /\ loginPc' = "idle"
    /\ loginResult' = "success"
    /\ last' = AfterLogin(access, refresh, u)
    /\ UNCHANGED pageVars
    /\ UNCHANGED <<now, href, mounted, calls, bgVars, ops>>

\* LoginOk without the write of the user entry
LoginOkNoUser(access, refresh, u) ==
    /\ loginPc = "inflight"
    /\ store' = [store EXCEPT !.accessToken = access, !.refreshToken = refresh]
    /\ isAuthenticated' = TRUE
    /\ user' = u
    /\ loginPc' = "idle"
    /\ loginResult' = "success"
    /\ last' = AfterLogin(access, refresh, u)
    /\ UNCHANGED pageVars
    /\ UNCHANGED <<now, href, mounted, calls, bgVars, ops>>

\* The login endpoint answered with 2xx and {access, refresh, user}: lines 70-87
LoginOk(access, refresh, u) ==
    /\ loginPc = "inflight"
    /\ store' = [accessToken |-> access, refreshToken |-> refresh, user |-> Stringify(u)]
    /\ isAuthenticated' = TRUE
    /\ user' = u
    /\ loginPc' = "idle"
    /\ loginResult' = "success"
    /\ last' = AfterLogin(access, refresh, u)
    /\ UNCHANGED pageVars
    /\ UNCHANGED <<now, href, mounted, calls, bgVars, ops>>

\* LoginFailed ending the session that was there
LoginFailedSignsOut ==
    /\ loginPc = "inflight"
    /\ loginPc' = "idle"
    /\ loginResult' = "failure"
    /\ store' = ClearCredentials(store)
    /\ isAuthenticated' = FALSE
    /\ user' = None
    /\ last' = AfterOther
    /\ UNCHANGED pageVars
    /\ UNCHANGED <<now, href, mounted, calls, bgVars, ops>>

\* The login endpoint answered non-2xx, or the call or the body parsing
\* failed: lines 56-68 and 88-100
LoginFailed ==
    /\ loginPc = "inflight"
    /\ loginPc' = "idle"
    /\ loginResult' = "failure"
    /\ last' = AfterOther
    /\ UNCHANGED pageVars
    /\ UNCHANGED <<store, now, href, calls, ctxVars, bgVars, ops>>

\* The interval fires and refreshToken() runs up to its await: lines 103-118
RefreshTick ==
    /\ mounted
    /\ bgPc = "idle"
    /\ ops < MaxOps
    /\ ops' = ops + 1
    /\ IF store.refreshToken = None
       THEN /\ isAuthenticated' = FALSE
            /\ user' = None
            /\ UNCHANGED <<bgPc, bgRefresh>>
       ELSE /\ bgPc' = "inflight"
            /\ bgRefresh' = store.refreshToken
            /\ UNCHANGED <<isAuthenticated, user>>
    /\ last' = AfterOther
    /\ UNCHANGED pageVars
    /\ UNCHANGED <<store, now, href, mounted, calls, loginVars>>

\* The refresh endpoint answered 2xx with {access}: lines 124-129
RefreshTickOk(newTok) ==
    /\ bgPc = "inflight"
    /\ bgRefresh \in ValidRefresh
    /\ store' = SetAccessToken(store, newTok)
    /\ isAuthenticated' = TRUE
    /\ bgPc' = "idle"
    /\ last' = AfterOther
    /\ UNCHANGED pageVars
    /\ UNCHANGED <<now, href, user, mounted, calls, loginVars, bgRefresh, ops>>

\* RefreshTickFailed without the three removeItem calls
RefreshTickFailedKeepsStore ==
    /\ bgPc = "inflight"
    /\ isAuthenticated' = FALSE
    /\ user' = None
    /\ store' = store
    /\ bgPc' = "idle"
    /\ last' = AfterRefreshFailed
    /\ UNCHANGED pageVars
    /\ UNCHANGED <<now, href, mounted, calls, loginVars, bgRefresh, ops>>

\* The refresh endpoint answered non-2xx, or the call failed: lines 120-122, 130-146
RefreshTickFailed ==
    /\ bgPc = "inflight"
    /\ isAuthenticated' = FALSE
    /\ user' = None
    /\ store' = ClearCredentials(store)
    /\ bgPc' = "idle"
    /\ last' = AfterRefreshFailed
    /\ UNCHANGED pageVars
    /\ UNCHANGED <<now, href, mounted, calls, loginVars, bgRefresh, ops>>

\* Logout without setIsAuthenticated(false)
LogoutStaysAuthenticated ==
    /\ mounted
    /\ ops < MaxOps
    /\ ops' = ops + 1
    /\ store' = ClearCredentials(store)
    /\ user' = None
    /\ last' = AfterLogout
    /\ UNCHANGED pageVars
    /\ UNCHANGED <<now, href, isAuthenticated, mounted, calls, loginVars, bgVars>>

\* logout(): lines 149-166
Logout ==
    /\ mounted
    /\ ops < MaxOps
    /\ ops' = ops + 1
    /\ store' = ClearCredentials(store)
    /\ isAuthenticated' = FALSE
    /\ user' = None
    /\ last' = AfterLogout
    /\ UNCHANGED pageVars
    /\ UNCHANGED <<now, href, mounted, calls, loginVars, bgVars>>

\* Time passes
Tick ==
    /\ now + TickMs <= MaxTicks * TickMs
    /\ now' = now + TickMs
    /\ last' = AfterOther
    /\ UNCHANGED pageVars
    /\ UNCHANGED <<store, href, ctxVars, calls, loginVars, bgVars, ops>>

-----------------------------------------------------------------------------

Next ==
    \/ \E c \in Calls, ra \in BOOLEAN, h \in CallerHeaders : ApiRequest(c, ra, h)
    \/ \E c \in Calls, o \in {"ok", "rejected", "neterr"}, t \in IssuedAccess :
          RefreshResponse(c, o, t)
    \/ \E c \in Calls, s \in Statuses \cup {NetErr} : Response(c, s)
    \/ InitialLoad
    \/ Login
    \/ \E a \in IssuedAccess, u \in Users : LoginOk(a, "r.valid", u)
    \/ LoginFailed
    \/ RefreshTick
    \/ \E t \in IssuedAccess : RefreshTickOk(t)
    \/ RefreshTickFailed
    \/ Logout
    \/ Tick

Spec == Init /\ [][Next]_vars

-----------------------------------------------------------------------------
\* The cart of the billing page (src/src/pages/Billing.tsx)

\* item.quantity of the line of product id in prevCart, 0 when it has none
QuantityOf(prevCart, id) ==
    IF \E i \in DOMAIN prevCart : prevCart[i].id = id
    THEN prevCart[CHOOSE i \in DOMAIN prevCart : prevCart[i].id = id].quantity
    ELSE 0

\* Math.max(0, n)
Max0(n) == IF n > 0 THEN n ELSE 0

\* what the map callback of updateQuantity returns for a line to drop
NullItem == [id |-> "null", quantity |-> 0]
NotNull(item) == item # NullItem

\* the updater of addToCart: lines 102-112
addToCart(prevCart, id) ==
    IF \E i \in DOMAIN prevCart : prevCart[i].id = id
    THEN [i \in DOMAIN prevCart |->
             IF prevCart[i].id = id
             THEN [prevCart[i] EXCEPT !.quantity = @ + 1]
             ELSE prevCart[i]]
    ELSE Append(prevCart, [id |-> id, quantity |-> 1])

\* updateQuantity keeping the line whatever Math.max gives
updateQuantityKeepsLine(prevCart, id, change) ==
    [i \in DOMAIN prevCart |->
        IF prevCart[i].id = id
        THEN [prevCart[i] EXCEPT !.quantity = Max0(@ + change)]
        ELSE prevCart[i]]

\* the updater of updateQuantity: lines 116-126
updateQuantity(prevCart, id, change) ==
    SelectSeq([i \in DOMAIN prevCart |->
                  IF prevCart[i].id = id
                  THEN LET newQuantity == Max0(prevCart[i].quantity + change) IN
                       IF newQuantity > 0
                       THEN [prevCart[i] EXCEPT !.quantity = newQuantity]
                       ELSE NullItem
                  ELSE prevCart[i]],
              NotNull)

\* the updater of removeFromCart: line 130
removeFromCart(prevCart, id) ==
    LET Other(item) == item.id # id IN SelectSeq(prevCart, Other)

AddToCart(id) ==
    /\ QuantityOf(cart, id) < MaxQty
    /\ cart' = addToCart(cart, id)
    /\ cartOp' = [op |-> "addToCart", id |-> id, change |-> 0, before |-> QuantityOf(cart, id)]
    /\ UNCHANGED <<sessionVars, users, backend, del, userLog>>

UpdateQuantity(id, change) ==
    /\ QuantityOf(cart, id) + change <= MaxQty
    /\ cart' = updateQuantity(cart, id, change)
    /\ cartOp' = [op |-> "updateQuantity", id |-> id, change |-> change,
                  before |-> QuantityOf(cart, id)]
    /\ UNCHANGED <<sessionVars, users, backend, del, userLog>>

RemoveFromCart(id) ==
    /\ cart' = removeFromCart(cart, id)
    /\ cartOp' = [op |-> "removeFromCart", id |-> id, change |-> 0, before |-> QuantityOf(cart, id)]
    /\ UNCHANGED <<sessionVars, users, backend, del, userLog>>

\* The billing page on its own, from an empty cart
InitCart ==
    /\ store = EmptyStore
    /\ now = 0
    /\ href = "/"
    /\ isAuthenticated = FALSE
    /\ user = None
    /\ mounted = FALSE
    /\ calls = [c \in Calls |-> IdleCall]
    /\ loginPc = "idle"
    /\ loginResult = "none"
    /\ bgPc = "idle"
    /\ bgRefresh = None
    /\ ops = 0
    /\ last = AfterOther
    /\ cart = << >>
    /\ cartOp = NoCartOp
    /\ users = {}
    /\ backend = {}
    /\ del = IdleDelete
    /\ userLog = << >>

NextCart ==
    \/ \E id \in ProductIds : AddToCart(id)
    \/ \E id \in ProductIds, change \in Changes : UpdateQuantity(id, change)
    \/ \E id \in ProductIds : RemoveFromCart(id)

-----------------------------------------------------------------------------
\* apiRequest in a signed-in session whose mount effect has run

SignedIn(slots) ==
    /\ store \in [accessToken : {"h.exp100.s", "h.exp400.s"},
                  refreshToken : RefreshTokens,
                  user : {"{alice}"}]
    /\ now = 0
    /\ href = "/"
    /\ isAuthenticated = TRUE
    /\ user = "alice"
    /\ mounted = TRUE
    /\ calls = [c \in slots |-> IdleCall]
    /\ loginPc = "idle"
    /\ loginResult = "none"
    /\ bgPc = "idle"
    /\ bgRefresh = None
    /\ ops = 0
    /\ last = AfterOther
    /\ cart = << >>
    /\ cartOp = NoCartOp
    /\ users = {}
    /\ backend = {}
    /\ del = IdleDelete
    /\ userLog = << >>

RefreshAnswered(c) ==
    \E o \in {"ok", "rejected", "neterr"}, t \in IssuedAccess : RefreshResponse(c, o, t)
RequestAnswered(c) ==
    \E s \in Statuses \cup {NetErr} : Response(c, s)

\* One caller at a time, with logout and the clock beside it; every network
\* call is answered or fails in the end
InitAnswered == SignedIn(Calls)

NextAnswered ==
    \/ \E c \in Calls, h \in CallerHeaders : ApiRequest(c, TRUE, h)
    \/ \E c \in Calls : RefreshAnswered(c)
    \/ \E c \in Calls : RequestAnswered(c)
    \/ Logout
    \/ Tick

SpecAnswered ==
    /\ InitAnswered
    /\ [][NextAnswered]_vars
    /\ \A c \in Calls : WF_vars(RefreshAnswered(c)) /\ WF_vars(RequestAnswered(c))

\* Two components calling apiRequest concurrently
InitPair == SignedIn(Callers)

NextPair ==
    \/ \E c \in Callers : ApiRequest(c, TRUE, PlainHeaders(NoHeaders))
    \/ \E c \in Callers : RefreshAnswered(c)
    \/ \E c \in Callers : RequestAnswered(c)

SpecPair == InitPair /\ [][NextPair]_vars

SpecCart == InitCart /\ [][NextCart]_vars

-----------------------------------------------------------------------------
\* UserManagement (src/src/components/ErrorBoundary.tsx)

\* One entry of userLog:
\*   cannotDelete  the 'Cannot delete last admin' notice (line 158)
\*   DELETE        fetch(`/users/${id}/`, {method: 'DELETE'}) (line 163)
\*   deleted       the 'User removed successfully' notice (line 168)
\*   GET           fetchUsers() sent its request (lines 169, 86)
\*   loaded        fetchUsers() got the list and setUsers(data) ran (line 93)
\*   loadFailed    fetchUsers() failed and showed its error notice (line 96)
\*   error         the error notice of handleDelete (line 172)
UEv(e, id) == [e |-> e, id |-> id]
UCount(log, kinds) == Cardinality({i \in DOMAIN log : log[i].e \in kinds})

\* IsLastAdmin holding for every admin
IsLastAdminAlways(list, id) ==
    \E u \in list : u.id = id /\ u.role = "admin"

\* userToDelete?.role === 'admin' &&
\* users.filter(u => u.role === 'admin').length === 1: lines 156-157
IsLastAdmin(list, id) ==
    /\ \E u \in list : u.id = id /\ u.role = "admin"
    /\ Cardinality({u \in list : u.role = "admin"}) = 1

\* handleDelete(id) up to its await on the DELETE call: lines 155-166
HandleDelete(id) ==
    /\ del.pc = "idle"
    /\ UCount(userLog, {"DELETE", "cannotDelete"}) < MaxDeletes
    /\ IF IsLastAdmin(users, id)
       THEN /\ userLog' = Append(userLog, UEv("cannotDelete", id))
            /\ del' = del
       ELSE /\ userLog' = Append(userLog, UEv("DELETE", id))
            /\ del' = [pc |-> "deleting", id |-> id]
    /\ UNCHANGED <<sessionVars, cart, cartOp, users, backend>>

\* The DELETE call was answered; the backend removed the user when it
\* answered 2xx: lines 167-173
DeleteResponse(ok) ==
    /\ del.pc = "deleting"
    /\ IF ok
       THEN /\ backend' = {u \in backend : u.id # del.id}
            /\ userLog' = userLog \o <<UEv("deleted", del.id), UEv("GET", 0)>>
       ELSE /\ backend' = backend
            /\ userLog' = Append(userLog, UEv("error", del.id))
    /\ del' = IdleDelete
    /\ UNCHANGED <<sessionVars, cart, cartOp, users>>

\* fetchUsers() got its answer: lines 91-97
FetchUsersResponse(ok) ==
    /\ UCount(userLog, {"GET"}) > UCount(userLog, {"loaded", "loadFailed"})
    /\ IF ok
       THEN /\ users' = backend
            /\ userLog' = Append(userLog, UEv("loaded", 0))
       ELSE /\ users' = users
            /\ userLog' = Append(userLog, UEv("loadFailed", 0))
    /\ UNCHANGED <<sessionVars, cart, cartOp, backend, del>>

\* The page with the list its mount effect loaded (or failed to load)
InitUsers ==
    /\ store = EmptyStore
    /\ now = 0
    /\ href = "/"
    /\ isAuthenticated = FALSE
    /\ user = None
    /\ mounted = FALSE
    /\ calls = [c \in Calls |-> IdleCall]
    /\ loginPc = "idle"
    /\ loginResult = "none"
    /\ bgPc = "idle"
    /\ bgRefresh = None
    /\ ops = 0
    /\ last = AfterOther
    /\ cart = << >>
    /\ cartOp = NoCartOp
    /\ backend \in UserLists
    /\ users \in {backend, {}}
    /\ del = IdleDelete
    /\ userLog = << >>

NextUsers ==
    \/ \E id \in UserIds : HandleDelete(id)
    \/ \E ok \in BOOLEAN : DeleteResponse(ok)
    \/ \E ok \in BOOLEAN : FetchUsersResponse(ok)

SpecUsers == InitUsers /\ [][NextUsers]_vars

-----------------------------------------------------------------------------
\* Reading a call's trace

Kinds(tr) == {tr[i].e : i \in DOMAIN tr}
Positions(tr, kind) == {i \in DOMAIN tr : tr[i].e = kind}
Count(tr, kind) == Cardinality(Positions(tr, kind))
First(tr, kind) == CHOOSE i \in Positions(tr, kind) : \A j \in Positions(tr, kind) : i <= j
Settled(cr) == cr.pc \in {"returned", "thrown"}

\* The token decodes to an expiry and exp - now relates to the 5 minutes as said
ExpiresAfterWindow(tok, t) ==
    /\ tok # None /\ ~Decode(tok).throws /\ Decode(tok).hasExp
    /\ Decode(tok).exp * 1000 - t > 300000
ExpiresWithinWindow(tok, t) ==
    /\ tok # None /\ ~Decode(tok).throws /\ Decode(tok).hasExp
    /\ Decode(tok).exp * 1000 - t <= 300000
Malformed(tok) == tok # None /\ Decode(tok).throws

\* The events a step appended to call c's trace (all of it when the step
\* started the call)
NewEvents(c) ==
    IF calls'[c] = calls[c] THEN << >>
    ELSE IF Settled(calls[c]) \/ calls[c].pc = "idle" THEN calls'[c].trace
    ELSE SubSeq(calls'[c].trace, Len(calls[c].trace) + 1, Len(calls'[c].trace))

\* No operation is under way
Quiescent ==
    /\ mounted
    /\ \A c \in Calls : calls[c].pc \in {"idle", "returned", "thrown"}
    /\ loginPc = "idle"
    /\ bgPc = "idle"

-----------------------------------------------------------------------------
\* C1: whenever every started operation (login, logout, apiRequest, periodic
\* refresh) has completed, the store holds both accessToken and refreshToken
\* or neither of them.
C1_BothOrNeither ==
    Quiescent => ((store.accessToken = None) <=> (store.refreshToken = None))

\* C2: every Token Resolution of an apiRequest call with requireAuth that reads
\* an access token whose decoded expiry is more than 5 minutes ahead is followed
\* at once by the request carrying exactly that token as the bearer credential,
\* with no call to the refresh endpoint.
C2_FreshTokenAttached ==
    \A c \in Calls :
        LET tr == calls[c].trace IN
        \A i \in DOMAIN tr :
            (tr[i].e = "resolve" /\ ExpiresAfterWindow(tr[i].tok, tr[i].at)) =>
                /\ i < Len(tr)
                /\ tr[i + 1].e = "request"
                /\ tr[i + 1].hdr["Authorization"] = Bearer(tr[i].tok)

C2_Witness ==
    \E c \in Calls :
        LET tr == calls[c].trace IN
        /\ calls[c].pc = "returned" /\ calls[c].requireAuth
        /\ Len(tr) = 3
        /\ tr[1].e = "resolve" /\ ExpiresAfterWindow(tr[1].tok, tr[1].at)
        /\ tr[2].e = "request" /\ tr[2].hdr["Authorization"] = Bearer(tr[1].tok)
        /\ tr[3].e = "response" /\ tr[3].status = 200

\* C3: when the first Token Resolution of an apiRequest call reads an access
\* token whose decoded expiry is at or under the 5-minute threshold and a valid
\* refresh token, the call calls the refresh endpoint, exactly once before the
\* original request, and the access token the endpoint returns is written to the
\* store before the request is issued with it.
C3_RefreshBeforeRequest ==
    \A c \in Calls :
        LET tr == calls[c].trace IN
        (/\ calls[c].requireAuth /\ Len(tr) >= 2
         /\ ExpiresWithinWindow(tr[1].tok, tr[1].at)
         /\ tr[1].rt \in ValidRefresh) =>
            /\ tr[2].e = "refreshCall"
            /\ Count(tr, "request") > 0 =>
                  /\ Cardinality({i \in Positions(tr, "refreshCall") : i < First(tr, "request")}) = 1
                  /\ Count(tr, "setItem") > 0 =>
                        /\ First(tr, "setItem") < First(tr, "request")
                        /\ tr[First(tr, "request")].hdr["Authorization"]
                              = Bearer(tr[First(tr, "setItem")].tok)

\* C4: an apiRequest call with requireAuth that finds no access token stored
\* issues no request at all (neither refresh nor protected), fails with the
\* error 'No access token', and sets the location to the sign-in view.
C4_NoTokenNoRequest ==
    \A c \in Calls :
        LET tr == calls[c].trace IN
        (calls[c].requireAuth /\ Len(tr) >= 1 /\ tr[1].e = "resolve" /\ tr[1].tok = None) =>
            /\ calls[c].pc = "thrown"
            /\ calls[c].result = [kind |-> "error", status |-> 0, msg |-> "No access token"]
            /\ Kinds(tr) = {"resolve", "redirect"}
            /\ Len(tr) = 2
            /\ href = "/login"

C4_Witness ==
    \E c \in Calls :
        /\ calls[c].pc = "thrown" /\ calls[c].requireAuth
        /\ calls[c].trace[1].e = "resolve" /\ calls[c].trace[1].tok = None
        /\ store.accessToken = None

\* C5: a Token Resolution that reads a stored access token that cannot be
\* decoded succeeds: in that step the store is left as it was, no refresh call
\* is made, and the request is issued with the stored token as the bearer.
C5_MalformedUsedAsIs ==
    [][\A c \in Calls :
          LET ev == NewEvents(c) IN
          \A i \in DOMAIN ev :
              (ev[i].e = "resolve" /\ Malformed(ev[i].tok)) =>
                  /\ store' = store
                  /\ i = Len(ev) - 1
                  /\ ev[i + 1].e = "request"
                  /\ ev[i + 1].hdr["Authorization"] = Bearer(ev[i].tok)]_vars

C5_Witness ==
    \E c \in Calls :
        LET tr == calls[c].trace IN
        /\ calls[c].pc = "requesting" /\ Len(tr) = 2
        /\ tr[1].e = "resolve" /\ Malformed(tr[1].tok)
        /\ tr[2].e = "request" /\ tr[2].hdr["Authorization"] = Bearer(tr[1].tok)
        /\ store.accessToken = tr[1].tok

\* C6: when the refresh endpoint answers the refresh call of the first Token
\* Resolution of an apiRequest call with a non-success status, that step removes
\* accessToken, refreshToken and user from the store, the call fails with the
\* error 'No access token', and it has issued no protected request.
C6_RefreshRejectedWipes ==
    [][\A c \in Calls :
          (calls[c].pc = "refreshing" /\ calls[c].attempt = 1
           /\ "wipe" \in Kinds(NewEvents(c))) =>
              /\ store'.accessToken = None
              /\ store'.refreshToken = None
              /\ store'.user = None
              /\ calls'[c].pc = "thrown"
              /\ calls'[c].result = [kind |-> "error", status |-> 0, msg |-> "No access token"]
              /\ "request" \notin Kinds(calls'[c].trace)]_vars

C6_Witness ==
    \E c \in Calls :
        LET tr == calls[c].trace IN
        /\ calls[c].pc = "thrown" /\ calls[c].attempt = 1
        /\ Len(tr) >= 3 /\ tr[2].e = "refreshCall" /\ tr[3].e = "wipe"
        /\ store = [accessToken |-> None, refreshToken |-> None, user |-> None]

\* What followed the first response in a call's trace (the second Token
\* Resolution and the retry)
AfterFirstResponse(tr) == SubSeq(tr, First(tr, "response") + 1, Len(tr))

\* The first protected request of the call was answered 401
FirstWas401(cr) ==
    /\ cr.requireAuth
    /\ Count(cr.trace, "response") > 0
    /\ cr.trace[First(cr.trace, "response")].status = 401

\* The resolution logged at the head of seg yielded no token: nothing was
\* stored, or a refresh was needed and there was no refresh token or the
\* endpoint refused it.
YieldedNoToken(seg) ==
    \/ seg[1].tok = None
    \/ "wipe" \in Kinds(seg)
    \/ /\ ~Malformed(seg[1].tok) /\ Decode(seg[1].tok).hasExp
       /\ Decode(seg[1].tok).exp * 1000 - seg[1].at < 300000
       /\ seg[1].rt = None

\* C7 as stated: a call whose first protected request was answered 401 and that
\* returned has made exactly one retry, and returned the retry's response.
C7_AlwaysOneRetry ==
    \A c \in Calls :
        LET cr == calls[c] tr == cr.trace IN
        (cr.pc = "returned" /\ FirstWas401(cr)) =>
            /\ Count(tr, "request") = 2
            /\ tr[Len(tr)].e = "response"
            /\ cr.result = [kind |-> "response", status |-> tr[Len(tr)].status, msg |-> ""]

\* C7 as amended: a call never issues a third protected request; when its first
\* protected request is answered 401 it resolves a token once more; if that
\* yields a token it retries exactly once with that token and returns the
\* retry's response whatever its status; if it yields no token it makes no
\* retry and returns the first 401 response.
C7_RetryOnceIfToken ==
    \A c \in Calls :
        LET cr == calls[c] tr == cr.trace IN
        /\ Count(tr, "request") <= 2
        /\ (cr.pc = "returned" /\ FirstWas401(cr)) =>
              LET seg == AfterFirstResponse(tr) IN
              /\ Len(seg) >= 1 /\ seg[1].e = "resolve"
              /\ Count(seg, "resolve") = 1
              /\ IF YieldedNoToken(seg)
                 THEN /\ Count(tr, "request") = 1
                      /\ cr.result = [kind |-> "response", status |-> 401, msg |-> ""]
                 ELSE /\ Count(tr, "request") = 2
                      /\ Count(seg, "request") = 1
                      /\ seg[First(seg, "request")].hdr["Authorization"] =
                            Bearer(IF "setItem" \in Kinds(seg)
                                   THEN seg[First(seg, "setItem")].tok
                                   ELSE seg[1].tok)
                      /\ seg[Len(seg)].e = "response"
                      /\ First(seg, "request") = Len(seg) - 1
                      /\ cr.result = [kind |-> "response", status |-> seg[Len(seg)].status,
                                      msg |-> ""]

C7_Witness ==
    \E c \in Calls :
        LET cr == calls[c] tr == cr.trace IN
        /\ cr.pc = "returned" /\ FirstWas401(cr)
        /\ Count(tr, "request") = 2
        /\ cr.result.status = 401

\* C8: an apiRequest call with requireAuth = false resolves no token, calls no
\* refresh endpoint, writes and removes nothing in the store, does not touch the
\* location, sends no Authorization header but one the caller gave,
\* issues exactly one request and returns its response, 401 included.
C8_NoAuthPassThrough ==
    [][\A c \in Calls :
          (calls'[c] # calls[c] /\ ~calls'[c].requireAuth) =>
              LET cr == calls'[c] tr == cr.trace IN
              /\ store' = store
              /\ href' = href
              /\ Kinds(tr) \subseteq {"request", "response"}
              /\ Count(tr, "request") = 1
              /\ tr[1].e = "request"
              /\ tr[1].hdr["Authorization"] \in
                     {Absent, cr.callerHeaders.map["Authorization"]}
              /\ Len(tr) <= 2
              /\ Len(tr) = 2 =>
                    /\ tr[2].e = "response"
                    /\ tr[2].status # NetErr =>
                          /\ cr.pc = "returned"
                          /\ cr.result = [kind |-> "response", status |-> tr[2].status,
                                          msg |-> ""]]_vars

C8_Witness ==
    \E c \in Calls :
        LET cr == calls[c] tr == cr.trace IN
        /\ ~cr.requireAuth /\ cr.pc = "returned"
        /\ Len(tr) = 2 /\ tr[2].status = 401
        /\ cr.result.status = 401
        /\ tr[1].hdr["Authorization"] = Absent

\* C9: whenever a refresh is needed and no refresh token is stored (a Token
\* Resolution of apiRequest reads a stale access token and no refresh token, or
\* the periodic refresh runs with no refresh token stored), that step removes
\* accessToken, refreshToken and user from the store; in apiRequest it also sets
\* the location to the sign-in view, and the periodic refresh leaves the
\* context unauthenticated.
C9_MissingRefreshWipes ==
    [][/\ \A c \in Calls :
             LET ev == NewEvents(c) IN
             \A i \in DOMAIN ev :
                 (/\ ev[i].e = "resolve" /\ ev[i].rt = None
                  /\ ~Malformed(ev[i].tok) /\ ev[i].tok # None
                  /\ Decode(ev[i].tok).hasExp
                  /\ Decode(ev[i].tok).exp * 1000 - ev[i].at < 300000) =>
                     /\ store' = [accessToken |-> None, refreshToken |-> None, user |-> None]
                     /\ href' = "/login"
       /\ (RefreshTick /\ store.refreshToken = None) =>
             /\ store' = [accessToken |-> None, refreshToken |-> None, user |-> None]
             /\ ~isAuthenticated']_vars

\* C10: a network-level failure of a call made by apiRequest makes the call
\* reject: after a failed refresh call no protected request is issued, and a
\* failed protected request is the last thing the call does.
C10_NetworkFailureRejects ==
    \A c \in Calls :
        LET cr == calls[c] tr == cr.trace IN
        \A i \in DOMAIN tr :
            /\ tr[i].e = "refreshFailed" =>
                  /\ cr.pc = "thrown"
                  /\ \A j \in Positions(tr, "request") : j < i
            /\ (tr[i].e = "response" /\ tr[i].status = NetErr) =>
                  /\ cr.pc = "thrown"
                  /\ i = Len(tr)

\* The periodic refreshToken() has just stored a new access token
TickRefreshed == bgPc = "inflight" /\ bgPc' = "idle" /\ isAuthenticated'

\* C11: a successful refresh, in apiRequest's Token Resolution or in the
\* periodic refreshToken, writes the accessToken entry only: the stored refresh
\* token and the stored user record are the same before and after that step.
C11_RefreshWritesAccessOnly ==
    [][(TickRefreshed \/ \E c \in Calls : "setItem" \in Kinds(NewEvents(c))) =>
          /\ store'.refreshToken = store.refreshToken
          /\ store'.user = store.user
          /\ store'.accessToken \in IssuedAccess]_vars

C11_Witness ==
    \E c \in Calls :
        LET tr == calls[c].trace IN
        /\ Len(tr) = 4 /\ tr[3].e = "setItem" /\ tr[4].e = "request"
        /\ store.accessToken = tr[3].tok
        /\ store.accessToken # tr[1].tok
        /\ store.refreshToken = tr[1].rt
        /\ store.user = "{alice}"

\* C12: when the first protected request is answered 401 and the second Token
\* Resolution yields no token, the call issues no second protected request and
\* returns the first 401 response as its result; it does not throw.
C12_NoTokenReturnsFirst401 ==
    \A c \in Calls :
        LET cr == calls[c] tr == cr.trace IN
        (FirstWas401(cr) /\ cr.pc # "refreshing"
         /\ YieldedNoToken(AfterFirstResponse(tr))) =>
            /\ cr.pc = "returned"
            /\ Count(tr, "request") = 1
            /\ cr.result = [kind |-> "response", status |-> 401, msg |-> ""]

C12_Witness ==
    \E c \in Calls :
        LET cr == calls[c] tr == cr.trace IN
        /\ FirstWas401(cr) /\ cr.pc = "returned"
        /\ "wipe" \in Kinds(AfterFirstResponse(tr))
        /\ Count(tr, "request") = 1
        /\ cr.result.status = 401

\* The Token Resolutions of a trace: the pieces that start at its resolve events
ResolutionAt(tr, i) ==
    SubSeq(tr, i, IF \E j \in Positions(tr, "resolve") : j > i
                  THEN (CHOOSE j \in Positions(tr, "resolve") : j > i) - 1
                  ELSE Len(tr))
AllResolutionsSucceeded(tr) ==
    \A i \in Positions(tr, "resolve") : ~YieldedNoToken(ResolutionAt(tr, i))

\* C13: an apiRequest call all of whose Token Resolutions yielded a token never
\* sets the location to the sign-in view and removes nothing from the store,
\* also when the first request and the retry are both answered 401.
C13_RedirectOnlyOnResolutionFailure ==
    [][\A c \in Calls :
          (calls'[c] # calls[c] /\ AllResolutionsSucceeded(calls'[c].trace)) =>
              /\ href' = href
              /\ "redirect" \notin Kinds(calls'[c].trace)
              /\ "wipe" \notin Kinds(calls'[c].trace)
              /\ store.accessToken # None => store'.accessToken # None
              /\ store.refreshToken # None => store'.refreshToken # None
              /\ store.user # None => store'.user # None]_vars

C13_Witness ==
    \E c \in Calls :
        LET cr == calls[c] tr == cr.trace IN
        /\ cr.pc = "returned" /\ cr.requireAuth
        /\ Count(tr, "response") = 2
        /\ \A i \in Positions(tr, "response") : tr[i].status = 401
        /\ AllResolutionsSucceeded(tr)
        /\ href = "/"
        /\ store.accessToken # None

\* C14: when the first response of an apiRequest call has a status other than
\* 401, the call has issued exactly one request, resolves no token after it,
\* and returns that response.
C14_OtherStatusReturned ==
    \A c \in Calls :
        LET cr == calls[c] tr == cr.trace IN
        (Count(tr, "response") > 0
         /\ tr[First(tr, "response")].status \notin {401, NetErr}) =>
            /\ cr.pc = "returned"
            /\ Count(tr, "request") = 1
            /\ First(tr, "response") = Len(tr)
            /\ Count(tr, "resolve") = IF cr.requireAuth THEN 1 ELSE 0
            /\ cr.result = [kind |-> "response", status |-> tr[Len(tr)].status, msg |-> ""]

C14_Witness ==
    \E c \in Calls :
        LET cr == calls[c] tr == cr.trace IN
        /\ cr.pc = "returned" /\ cr.requireAuth
        /\ tr[Len(tr)].e = "response" /\ tr[Len(tr)].status = 500
        /\ cr.result.status = 500

\* C15: when login has just stored what the backend issued and the issued
\* access token expires more than 5 minutes ahead, an apiRequest call with
\* requireAuth made next resolves that token, calls no refresh endpoint and
\* issues its request with that token as the bearer credential.
C15_LoginThenRequest ==
    [][\A c \in Calls :
          (/\ last.op = "login"
           /\ ExpiresAfterWindow(last.access, now)
           /\ calls[c].pc \in {"idle", "returned", "thrown"}
           /\ calls'[c] # calls[c]
           /\ calls'[c].requireAuth) =>
              LET tr == calls'[c].trace IN
              /\ calls'[c].pc = "requesting"
              /\ Len(tr) = 2
              /\ tr[1].e = "resolve" /\ tr[1].tok = last.access
              /\ tr[2].e = "request"
              /\ tr[2].hdr["Authorization"] = Bearer(last.access)
              /\ store' = store]_vars

C15_Witness ==
    \E c \in Calls :
        LET tr == calls[c].trace IN
        /\ loginResult = "success" /\ ops = 2 /\ bgPc = "idle"
        /\ calls[c].pc = "returned" /\ calls[c].result.status = 200
        /\ Len(tr) = 3 /\ tr[1].tok = store.accessToken
        /\ ExpiresAfterWindow(tr[1].tok, tr[1].at)
        /\ tr[2].hdr["Authorization"] = Bearer(store.accessToken)
        /\ isAuthenticated

\* C16: in the state a successful login leaves, which is the first any other
\* operation can observe, accessToken, refreshToken and user are the three
\* values of the new session, isAuthenticated is true and the context user is
\* the user the backend sent.
C16_LoginWritesAllThree ==
    last.op = "login" =>
        /\ store.accessToken = last.access
        /\ store.refreshToken = last.refresh
        /\ store.user # None
        /\ ParseUser(store.user) = [ok |-> TRUE, value |-> last.user]
        /\ isAuthenticated
        /\ user = last.user
        /\ loginPc = "idle" /\ loginResult = "success"

C16_Witness ==
    /\ last.op = "login"
    /\ store = [accessToken |-> "h.exp900.s", refreshToken |-> "r.valid", user |-> "{alice}"]
    /\ isAuthenticated /\ user = "alice"

\* C17: in the state logout leaves, which is the first any other operation can
\* observe, accessToken, refreshToken and user are all absent from the store,
\* isAuthenticated is false and the context user is null.
C17_LogoutClearsAll ==
    last.op = "logout" =>
        /\ store.accessToken = None
        /\ store.refreshToken = None
        /\ store.user = None
        /\ ~isAuthenticated
        /\ user = None

C17_Witness ==
    /\ last.op = "logout"
    /\ loginResult = "success"
    /\ store = [accessToken |-> None, refreshToken |-> None, user |-> None]
    /\ ~isAuthenticated /\ user = None

\* C18: in an apiRequest call with requireAuth, every header the caller
\* supplied other than Authorization is sent unchanged on the first request and
\* on the retry; only the Authorization entry is added or replaced.
C18_CallerHeadersPreserved ==
    \A c \in Calls :
        LET cr == calls[c] tr == cr.trace IN
        cr.requireAuth =>
            \A i \in Positions(tr, "request") :
                \A n \in HeaderNames \ {"Authorization"} :
                    tr[i].hdr[n] = cr.callerHeaders.map[n]

\* C19: the 5-minute threshold is inclusive on the stale side: every Token
\* Resolution that reads a token with a decoded expiry and a remaining lifetime
\* of 300000 ms or less (a refresh token being stored) calls the refresh
\* endpoint, and a resolution is followed directly by the request, the token
\* returned unchanged, only when the remaining lifetime exceeds 300000 ms.
C19_ThresholdInclusive ==
    \A c \in Calls :
        LET tr == calls[c].trace IN
        \A i \in Positions(tr, "resolve") :
            (/\ i < Len(tr)
             /\ tr[i].tok # None /\ ~Decode(tr[i].tok).throws /\ Decode(tr[i].tok).hasExp) =>
                /\ (Remaining(tr[i].tok, tr[i].at) <= RefreshWindowMs /\ tr[i].rt # None) =>
                      tr[i + 1].e = "refreshCall"
                /\ tr[i + 1].e = "request" =>
                      Remaining(tr[i].tok, tr[i].at) > RefreshWindowMs

\* C20: within one apiRequest call with requireAuth the steps are strictly
\* ordered: the k-th request is issued after exactly k Token Resolutions have
\* started, every refresh call started before a request has been answered (its
\* store write or wipe done, or its failure caught) before that request is
\* issued, and the second resolution starts only after the first response.
C20_StrictOrder ==
    \A c \in Calls :
        LET cr == calls[c]
            tr == cr.trace
            req == Positions(tr, "request")
            res == Positions(tr, "resolve")
        IN  cr.requireAuth =>
            /\ \A j \in req :
                  /\ j > 1
                  /\ tr[j - 1].e \in {"resolve", "setItem", "refreshFailed"}
                  /\ Cardinality({i \in res : i < j}) = Cardinality({i \in req : i <= j})
                  /\ \A i \in Positions(tr, "refreshCall") :
                        i < j => /\ i + 1 < j
                                 /\ tr[i + 1].e \in {"setItem", "wipe", "refreshFailed"}
            /\ \A i \in res :
                  i > 1 => /\ tr[i - 1].e = "response"
                           /\ tr[i - 1].status = Unauthorized
                           /\ Cardinality({m \in req : m < i}) = 1
            /\ (cr.pc = "refreshing") <=> (Len(tr) > 0 /\ tr[Len(tr)].e = "refreshCall")

C20_Witness ==
    \E c \in Calls :
        LET cr == calls[c] tr == cr.trace IN
        /\ cr.requireAuth /\ cr.pc = "returned"
        /\ Count(tr, "request") = 2
        /\ Count(tr, "refreshCall") = 2
        /\ Count(tr, "setItem") = 2
        /\ tr[2].e = "refreshCall" /\ tr[3].e = "setItem" /\ tr[4].e = "request"

\* C22: when the first protected request is answered 401 while the stored
\* access token has more than 5 minutes left, the second Token Resolution
\* returns that stored token, calls no refresh endpoint and leaves the store
\* alone, and the request is reissued once with it (with the very same headers
\* when the first request carried that token); the answer to the retry is
\* returned whatever its status, with no third request.
C22_FreshTokenRetriedOnce ==
    [][\A c \in Calls :
          LET cr == calls[c]
              tr == cr.trace
              tr2 == calls'[c].trace
              n == Len(tr)
          IN  (cr.pc = "requesting" /\ cr.requireAuth /\ calls'[c] # cr) =>
                /\ (/\ cr.attempt = 1
                    /\ tr2[n + 1].status = Unauthorized
                    /\ ExpiresAfterWindow(store.accessToken, now)) =>
                       /\ Len(tr2) = n + 3
                       /\ tr2[n + 2].e = "resolve" /\ tr2[n + 2].tok = store.accessToken
                       /\ tr2[n + 3].e = "request"
                       /\ tr2[n + 3].hdr["Authorization"] = Bearer(store.accessToken)
                       /\ tr[n].hdr["Authorization"] = Bearer(store.accessToken) =>
                             tr2[n + 3].hdr = tr[n].hdr
                       /\ calls'[c].pc = "requesting"
                       /\ store' = store
                /\ (cr.attempt = 2 /\ tr2[n + 1].status # NetErr) =>
                       /\ calls'[c].pc = "returned"
                       /\ calls'[c].result = ResponseResult(tr2[n + 1].status)
                       /\ Len(tr2) = n + 1
                       /\ Count(tr2, "request") = 2
                       /\ store' = store]_vars

C22_Witness ==
    \E c \in Calls :
        LET cr == calls[c] tr == cr.trace IN
        /\ cr.requireAuth /\ cr.pc = "returned" /\ Len(tr) = 6
        /\ Kinds(tr) = {"resolve", "request", "response"}
        /\ tr[3].status = Unauthorized /\ tr[6].status = Unauthorized
        /\ tr[4].tok = tr[1].tok /\ tr[5].hdr = tr[2].hdr
        /\ ExpiresAfterWindow(tr[4].tok, tr[4].at)
        /\ cr.result.status = Unauthorized

\* C23: in the state a failed call of the periodic refreshToken() leaves (the
\* refresh endpoint answered non-2xx, or the call failed), accessToken,
\* refreshToken and user are all absent from the store, isAuthenticated is
\* false, the context user is null, and no further refresh call is in flight.
C23_PeriodicRefreshFailureWipes ==
    last.op = "refreshFailed" =>
        /\ store.accessToken = None
        /\ store.refreshToken = None
        /\ store.user = None
        /\ ~isAuthenticated
        /\ user = None
        /\ bgPc = "idle"

C23_Witness ==
    /\ last.op = "refreshFailed"
    /\ bgRefresh = "r.expired"
    /\ store = EmptyStore
    /\ ~isAuthenticated /\ user = None /\ bgPc = "idle"

\* C24: once logout has executed, no credential is written to the store and
\* isAuthenticated does not become true until a login succeeds; in particular
\* the step that follows logout, when it is not a successful login, leaves the
\* store empty and isAuthenticated false, also when it is the completion of a
\* refresh call that was in flight at the moment of logout.
C24_NothingWrittenAfterLogout ==
    [][(last.op = "logout" /\ last'.op # "login") =>
          /\ store' = EmptyStore
          /\ ~isAuthenticated']_vars

\* C25: in every reachable state of the auth context, isAuthenticated = true
\* implies that the context user is not null.
C25_AuthenticatedHasUser ==
    isAuthenticated => user # None

\* C27: a login that fails (non-2xx answer, failed call or failed body
\* parsing) resolves to {success: false, error} and neither the step that
\* starts it nor the step that completes it changes the credential store,
\* isAuthenticated or the context user.
C27_FailedLoginChangesNothing ==
    [][(\/ loginPc = "idle" /\ loginPc' = "inflight"
        \/ loginPc = "inflight" /\ loginPc' = "idle" /\ last'.op # "login") =>
          /\ store' = store
          /\ isAuthenticated' = isAuthenticated
          /\ user' = user
          /\ href' = href
          /\ loginPc' = "idle" => loginResult' = "failure"]_vars

C27_Witness ==
    /\ loginPc = "idle" /\ loginResult = "failure"
    /\ store.accessToken # None /\ store.refreshToken # None
    /\ isAuthenticated /\ user # None

\* C28: the mount effect restores the session (isAuthenticated = true, user
\* set to the parsed record) if and only if an access token and a parseable
\* user record are both stored, and then leaves the store alone; when both are
\* stored and the user record does not parse, it removes the three entries and
\* the context stays unauthenticated with a null user; in every other case it
\* changes nothing.
C28_InitialLoadRestores ==
    [][(~mounted /\ mounted') =>
          LET both == store.accessToken # None /\ store.user # None
              parsed == ParseUser(store.user)
          IN  /\ isAuthenticated' <=> (both /\ parsed.ok)
              /\ (both /\ parsed.ok) => (user' = parsed.value /\ user' # None /\ store' = store)
              /\ (both /\ ~parsed.ok) => (store' = EmptyStore /\ user' = None)
              /\ ~both => (store' = store /\ user' = None)
              /\ href' = href]_vars

C28_Witness ==
    /\ mounted /\ ops = 0 /\ now = 0
    /\ store.accessToken = "opaque" /\ store.user = "{alice}"
    /\ isAuthenticated /\ user = "alice"

\* C29: after any sequence of addToCart, updateQuantity and removeFromCart
\* from an empty cart, the cart has at most one line per product id and every
\* line has quantity >= 1; addToCart leaves its product with one more than
\* before, updateQuantity leaves it with the changed quantity when that is at
\* least 1 and with no line when it would be 0 or below (or when it had none),
\* and removeFromCart leaves it with no line.
C29_CartWellFormed ==
    /\ \A i, j \in DOMAIN cart : cart[i].id = cart[j].id => i = j
    /\ \A i \in DOMAIN cart : cart[i].id \in ProductIds /\ cart[i].quantity >= 1
    /\ cartOp.op = "addToCart" => QuantityOf(cart, cartOp.id) = cartOp.before + 1
    /\ cartOp.op = "updateQuantity" =>
          QuantityOf(cart, cartOp.id) =
              IF cartOp.before > 0 /\ cartOp.before + cartOp.change >= 1
              THEN cartOp.before + cartOp.change
              ELSE 0
    /\ cartOp.op = "removeFromCart" => QuantityOf(cart, cartOp.id) = 0

\* updateQuantity has just taken a line of quantity 1 down by 2 and dropped it,
\* two other lines staying
C29_Witness ==
    /\ cartOp = [op |-> "updateQuantity", id |-> "p2", change |-> -2, before |-> 1]
    /\ Len(cart) = 2
    /\ QuantityOf(cart, "p2") = 0
    /\ QuantityOf(cart, "p1") = MaxQty

\* C30: handleDelete(id) issues no DELETE request when id is the only user
\* with role admin in the loaded list: it then shows the notice and leaves the
\* list, the backend and itself as they were; for any other id it issues one
\* DELETE request for that id, and a 2xx answer is followed by the notice and
\* one reload of the list, any other answer by an error notice only.
C30_LastAdminKept ==
    [][LET n == Len(userLog)
           new == SubSeq(userLog', n + 1, Len(userLog'))
           OnlyAdmin(id) == {u.id : u \in {v \in users : v.role = "admin"}} = {id}
       IN  /\ (del.pc = "idle" /\ new # << >> /\ new[1].e \in {"DELETE", "cannotDelete"}) =>
                 /\ Len(new) = 1
                 /\ users' = users /\ backend' = backend
                 /\ IF OnlyAdmin(new[1].id)
                    THEN new[1].e = "cannotDelete" /\ del' = del
                    ELSE new[1].e = "DELETE" /\ del' = [pc |-> "deleting", id |-> new[1].id]
           /\ (del.pc = "deleting" /\ del'.pc = "idle") =>
                 /\ users' = users
                 /\ \/ new = <<UEv("deleted", del.id), UEv("GET", 0)>>
                    \/ new = <<UEv("error", del.id)>> /\ backend' = backend
           /\ \A i \in DOMAIN new : new[i].e = "DELETE" => ~OnlyAdmin(new[i].id)]_vars

\* the only admin was refused, then a staff user was deleted and the list
\* reloaded without that user
C30_Witness ==
    /\ Len(userLog) = 5
    /\ userLog[1].e = "cannotDelete"
    /\ userLog[2].e = "DELETE" /\ userLog[2].id # userLog[1].id
    /\ userLog[3].e = "deleted" /\ userLog[4].e = "GET" /\ userLog[5].e = "loaded"
    /\ users = backend
    /\ \E u \in users : u.id = userLog[1].id /\ u.role = "admin"
    /\ \A u \in users : u.id # userLog[2].id

\* C21: refreshes are not coalesced: every Token Resolution of either caller
\* that reads a token short of the 5 minutes while a refresh token is stored
\* issues a refresh call of its own, carrying the refresh token it read,
\* whether or not the other caller has a refresh call in flight; so two
\* callers that both read the same stale token have two refresh calls in
\* flight.
C21_RefreshesNotCoalesced ==
    \A c \in Callers :
        LET tr == calls[c].trace IN
        \A i \in Positions(tr, "resolve") :
            (/\ tr[i].tok # None /\ tr[i].rt # None
             /\ ~Decode(tr[i].tok).throws /\ Decode(tr[i].tok).hasExp
             /\ Decode(tr[i].tok).exp * 1000 - tr[i].at < 300000) =>
                /\ i < Len(tr)
                /\ tr[i + 1].e = "refreshCall"
                /\ tr[i + 1].rt = tr[i].rt

\* both callers read the same stale token and both refresh calls are in flight
C21_Witness ==
    /\ \A c \in Callers :
          /\ calls[c].pc = "refreshing"
          /\ Len(calls[c].trace) = 2
          /\ calls[c].trace[1].tok = store.accessToken
          /\ calls[c].trace[2].e = "refreshCall"
    /\ store.accessToken = "h.exp100.s"

\* C26: a single apiRequest call issues at most two protected requests and at
\* most two calls to the refresh endpoint, it is unsettled only while one of
\* its network calls is in flight, and, every network call being answered or
\* failing in the end, it settles (returns or throws).
C26_CallTerminates ==
    /\ [](\A c \in Calls :
            /\ Count(calls[c].trace, "request") <= 2
            /\ Count(calls[c].trace, "refreshCall") <= 2
            /\ calls[c].pc \in {"idle", "refreshing", "requesting", "returned", "thrown"})
    /\ \A c \in Calls :
          (calls[c].pc \in {"refreshing", "requesting"}) ~> Settled(calls[c])

\* a call that made two refresh calls and two requests has returned
C26_Witness ==
    \E c \in Calls :
        /\ calls[c].pc = "returned"
        /\ Count(calls[c].trace, "request") = 2
        /\ Count(calls[c].trace, "refreshCall") = 2

====
